---- MODULE Spec2Model ----
(***************************************************************************)
(* message_ix: the Westeros "fossil resources" tutorial notebook and the   *)
(* "pytest" continuous-integration workflow, as two state machines.        *)
(*                                                                         *)
(*   SpecNB  one run of tutorial/westeros/westeros_fossil_resource.ipynb:  *)
(*           the code cells are executed top to bottom, every call into    *)
(*           the modelling platform either returns or raises.              *)
(*   SpecCI  one run of the pytest workflow: the job matrix is expanded    *)
(*           and the jobs execute their steps, interleaved.                *)
(***************************************************************************)
EXTENDS Integers, Sequences, FiniteSets, TLC

VARIABLES
    pc,             \* notebook: index in Program of the next call
    status,         \* notebook: "running", "raised" or "done"
    calls,          \* notebook: the platform calls made so far, with outcome
    error,          \* notebook: the exception that ended the run, or "none"
    sets,           \* scenario: <<set name, member>> pairs added by add_set
    rows,           \* scenario: [par, row] records submitted by add_par
    model_horizon,  \* notebook variable model_horizon (list of years)
    year_df,        \* notebook variable year_df (list of <<year_vtg, year_act>>)
    scen,           \* scenario life cycle: "none", "cloned", "checked_out",
                    \*   "committed", "solved"
    year_set,       \* platform: the 'year' set of the baseline scenario
    jobs            \* workflow: the matrix jobs, a sequence of job records

vars == <<pc, status, calls, error, sets, rows, model_horizon, year_df, scen, year_set, jobs>>

-----------------------------------------------------------------------------
(* Bounds *)

\* The baseline scenario's 'year' set is a non-empty subset of the first
\* MaxYears decades from 690 on (the Westeros baseline has 690..720).
MaxYears == 4

YearPool == {690 + 10 * k : k \in 0..(MaxYears - 1)}

-----------------------------------------------------------------------------
(* Helpers *)

RECURSIVE SortedSeq(_)
\* The members of a finite set of integers, ascending.
SortedSeq(S) ==
    IF S = {} THEN <<>>
    ELSE LET m == CHOOSE x \in S : \A y \in S : x <= y
         IN <<m>> \o SortedSeq(S \ {m})

RECURSIVE Flatten(_)
\* Concatenation of a sequence of sequences.
Flatten(ss) == IF ss = <<>> THEN <<>> ELSE Head(ss) \o Flatten(Tail(ss))

\* pandas.DataFrame(dict): scalar entries are broadcast over the rows given
\* by the list entries, which all have the same length.
DataFrame(scalars, lists) ==
    LET n == Len(lists[CHOOSE c \in DOMAIN lists : TRUE])
    IN [i \in 1..n |-> [c \in DOMAIN lists |-> lists[c][i]] @@ scalars]

\* message_ix.utils.make_df(base, **kwargs): base updated with the keyword
\* arguments, then turned into a data frame.
make_df(base_scalars, base_lists, kwargs) ==
    DataFrame(kwargs @@ base_scalars, base_lists)

-----------------------------------------------------------------------------
(* The notebook's data *)

commodity == "coal"
level == "resource"
country == "Westeros"

\* potentials = {'a': [1500, 10, 280], 'b': [3500, 52, 0]}
potentials_keys == <<"a", "b">>
\* The costs of the two grades exchanged.
potentialsWrongCost ==
    [a |-> <<1500, 52, 280>>, b |-> <<3500, 10, 0>>]
potentials ==
    [a |-> <<1500, 10, 280>>, b |-> <<3500, 52, 0>>]

resource_volume_df(grade) ==
    DataFrame([commodity |-> commodity, grade |-> grade,
               value |-> potentials[grade][1], unit |-> "GWa"],
              [node |-> <<country>>])

resource_cost_df(grade) ==
    DataFrame([node |-> country, commodity |-> commodity, grade |-> grade,
               value |-> potentials[grade][2], unit |-> "USD/kWa"],
              [year |-> model_horizon])

\* A frame that also carries the level.
historical_extraction_df_level(grade) ==
    DataFrame([node |-> country, commodity |-> commodity, grade |-> grade,
               level |-> level,
               value |-> potentials[grade][3], unit |-> "GWa"],
              [year |-> <<690>>])
historical_extraction_df(grade) ==
    DataFrame([node |-> country, commodity |-> commodity, grade |-> grade,
               value |-> potentials[grade][3], unit |-> "GWa"],
              [year |-> <<690>>])

input_df ==
    make_df([node_loc |-> country, mode |-> "standard",
             node_origin |-> country, commodity |-> "electricity",
             time |-> "year", time_origin |-> "year"],
            [year_vtg |-> [i \in 1..Len(year_df) |-> year_df[i][1]],
             year_act |-> [i \in 1..Len(year_df) |-> year_df[i][2]]],
            [technology |-> "coal_ppl", commodity |-> "coal",
             level |-> "resource", value |-> 1, unit |-> "%"])

\* The data frame an add_par call of the notebook submits.
ParDf(c) ==
    CASE c.arg = "resource_volume" -> resource_volume_df(c.key)
      [] c.arg = "resource_cost" -> resource_cost_df(c.key)
      [] c.arg = "historical_extraction" -> historical_extraction_df(c.key)
      [] c.arg = "input" -> input_df

\* Scenario.vintage_and_active_years(): the (vintage, active) year pairs.
vintage_and_active_years(years) ==
    Flatten([i \in 1..Len(years) |->
               [j \in 1..(Len(years) - i + 1) |-> <<years[i], years[i + j - 1]>>]])

-----------------------------------------------------------------------------
(* The notebook's code cells, as the platform calls they make in order *)

Call(cell, fn, arg, key) == [cell |-> cell, fn |-> fn, arg |-> arg, key |-> key]

CellPlatform == <<Call(2, "Platform", "", "")>>

CellClone ==
    <<Call(3, "Scenario", "baseline", ""),
      Call(3, "clone", "fossil_resources", ""),
      Call(3, "check_out", "", "")>>

CellSets ==
    <<Call(4, "add_set", "commodity", <<commodity>>),
      Call(4, "add_set", "level", <<level>>),
      Call(4, "add_set", "level_resource", <<level>>),
      Call(4, "add_set", "grade", <<"a", "b">>)>>

CellYears ==
    <<Call(5, "vintage_and_active_years", "", ""),
      Call(5, "set", "year", "")>>

\* for grade in potentials.keys(): three add_par calls per grade
LoopBody(grade) ==
    <<Call(7, "add_par", "resource_volume", grade),
      Call(7, "add_par", "resource_cost", grade),
      Call(7, "add_par", "historical_extraction", grade)>>

CellLoop ==
    Flatten([i \in 1..Len(potentials_keys) |-> LoopBody(potentials_keys[i])])

CellInput == <<Call(8, "add_par", "input", "")>>

CellCommit ==
    <<Call(9, "commit", "added coal resources", ""),
      Call(9, "set_as_default", "", "")>>

CellSolve == <<Call(10, "solve", "", "")>>

CellObj == <<Call(11, "var", "OBJ", "")>>

CellPlots ==
    <<Call(12, "Plots", "base", ""),
      Call(12, "Plots", "scen", "")>>

CellsPlot ==
    <<Call(13, "plot_activity", "b", ""),
      Call(14, "plot_activity", "p", ""),
      Call(15, "plot_capacity", "b", ""),
      Call(16, "plot_capacity", "p", ""),
      Call(17, "plot_prices", "b", ""),
      Call(18, "plot_prices", "p", ""),
      Call(19, "plot_fossil_supply_curve", "p", ""),
      Call(20, "plot_extraction", "p", "")>>

CellClose == <<Call(21, "close_db", "", "")>>

\* The cells with the solve cell placed before the commit cell.
ProgramSolveBeforeCommit ==
    CellPlatform \o CellClone \o CellSets \o CellYears \o CellLoop
    \o CellInput \o CellSolve \o CellCommit \o CellObj \o CellPlots
    \o CellsPlot \o CellClose
Program ==
    CellPlatform \o CellClone \o CellSets \o CellYears \o CellLoop
    \o CellInput \o CellCommit \o CellSolve \o CellObj \o CellPlots
    \o CellsPlot \o CellClose

PlotFns ==
    {"Plots", "plot_activity", "plot_capacity", "plot_prices",
     "plot_fossil_supply_curve", "plot_extraction"}

-----------------------------------------------------------------------------
(* Notebook execution *)

cur == Program[pc]

At(fn) == status = "running" /\ pc <= Len(Program) /\ cur.fn = fn

Logged(outcome) == [fn |-> cur.fn, arg |-> cur.arg, key |-> cur.key,
                    cell |-> cur.cell, outcome |-> outcome]

\* The call returns: control moves to the next statement or cell.
Return ==
    /\ calls' = Append(calls, Logged("ok"))
    /\ pc' = pc + 1
    /\ status' = IF pc = Len(Program) THEN "done" ELSE "running"
    /\ error' = error

\* A handler that catches the exception and repeats the call.
RaisesAndRetries ==
    /\ calls' = Append(Append(calls, Logged("raised")), Logged("ok"))
    /\ pc' = pc + 1
    /\ status' = IF pc = Len(Program) THEN "done" ELSE "running"
    /\ error' = error
    /\ UNCHANGED <<sets, rows, model_horizon, year_df, scen, year_set, jobs>>
\* The call raises: no cell has a try/except, so the exception ends the run.
Raises ==
    /\ calls' = Append(calls, Logged("raised"))
    /\ status' = "raised"
    /\ error' = cur.fn
    /\ UNCHANGED <<pc, sets, rows, model_horizon, year_df, scen, year_set, jobs>>

OpenPlatform ==
    /\ At("Platform")
    /\ \/ Return /\ UNCHANGED <<sets, rows, model_horizon, year_df, scen, year_set, jobs>>
       \/ Raises

LoadScenario ==
    /\ At("Scenario")
    /\ \/ Return /\ UNCHANGED <<sets, rows, model_horizon, year_df, scen, year_set, jobs>>
       \/ Raises

Clone ==
    /\ At("clone")
    /\ \/ /\ Return
          /\ scen' = "cloned"
          /\ UNCHANGED <<sets, rows, model_horizon, year_df, year_set, jobs>>
       \/ Raises

CheckOut ==
    /\ At("check_out")
    /\ \/ /\ Return
          /\ scen' = "checked_out"
          /\ UNCHANGED <<sets, rows, model_horizon, year_df, year_set, jobs>>
       \/ Raises

AddSet ==
    /\ At("add_set")
    /\ \/ /\ Return
          /\ sets' = sets \cup {<<cur.arg, cur.key[i]>> : i \in 1..Len(cur.key)}
          /\ UNCHANGED <<rows, model_horizon, year_df, scen, year_set, jobs>>
       \/ Raises

\* year_df = scen.vintage_and_active_years()
ReadVintageActive ==
    /\ At("vintage_and_active_years")
    /\ \/ /\ Return
          /\ year_df' = vintage_and_active_years(SortedSeq(year_set))
          /\ UNCHANGED <<sets, rows, model_horizon, scen, year_set, jobs>>
       \/ Raises

\* model_horizon = scen.set('year')
ReadSet ==
    /\ At("set")
    /\ \/ /\ Return
          /\ model_horizon' = SortedSeq(year_set)
          /\ UNCHANGED <<sets, rows, year_df, scen, year_set, jobs>>
       \/ Raises

AddPar ==
    /\ At("add_par")
    /\ \/ /\ Return
          /\ LET df == ParDf(cur)
             IN rows' = rows \o [i \in 1..Len(df) |-> [par |-> cur.arg, row |-> df[i]]]
          /\ UNCHANGED <<sets, model_horizon, year_df, scen, year_set, jobs>>
       \/ Raises

Commit ==
    /\ At("commit")
    /\ \/ /\ Return
          /\ scen' = "committed"
          /\ UNCHANGED <<sets, rows, model_horizon, year_df, year_set, jobs>>
       \/ Raises

SetAsDefault ==
    /\ At("set_as_default")
    /\ \/ Return /\ UNCHANGED <<sets, rows, model_horizon, year_df, scen, year_set, jobs>>
       \/ Raises

Solve ==
    /\ At("solve")
    /\ \/ /\ Return
          /\ scen' = "solved"
          /\ UNCHANGED <<sets, rows, model_horizon, year_df, year_set, jobs>>
       \/ Raises

ReadVar ==
    /\ At("var")
    /\ \/ Return /\ UNCHANGED <<sets, rows, model_horizon, year_df, scen, year_set, jobs>>
       \/ Raises

Plot ==
    /\ status = "running" /\ pc <= Len(Program) /\ cur.fn \in PlotFns
    /\ \/ Return /\ UNCHANGED <<sets, rows, model_horizon, year_df, scen, year_set, jobs>>
       \/ Raises

CloseDb ==
    /\ At("close_db")
    /\ \/ Return /\ UNCHANGED <<sets, rows, model_horizon, year_df, scen, year_set, jobs>>
       \/ Raises

StartNB(years) ==
    /\ pc = 1
    /\ status = "running"
    /\ calls = <<>>
    /\ error = "none"
    /\ sets = {}
    /\ rows = <<>>
    /\ model_horizon = <<>>
    /\ year_df = <<>>
    /\ scen = "none"
    /\ year_set = years

InitNB == \E S \in SUBSET YearPool : S # {} /\ StartNB(S)

NextNB ==
    \/ OpenPlatform
    \/ LoadScenario
    \/ Clone
    \/ CheckOut
    \/ AddSet
    \/ ReadVintageActive
    \/ ReadSet
    \/ AddPar
    \/ Commit
    \/ SetAsDefault
    \/ Solve
    \/ ReadVar
    \/ Plot
    \/ CloseDb

-----------------------------------------------------------------------------
(* The pytest workflow: matrix *)

\* At most MaxStarted of the queued jobs are picked up by a runner.
MaxStarted == 2

matrix_os == <<"macos-latest", "ubuntu-latest", "windows-latest">>
matrix_python == <<"3.6", "3.8">>
\* A matrix without exclude:.
matrix_excludeNone == {}
matrix_exclude == {[os |-> "windows-latest", python |-> "3.6"]}

\* GitHub's default when a strategy leaves fail-fast out.
fail_fastDefault == TRUE
\* fail-fast: false
fail_fast == FALSE

\* The combinations of the matrix variables, in declaration order, without
\* the excluded ones.
MatrixCombinations ==
    LET all == Flatten([i \in 1..Len(matrix_os) |->
                          [k \in 1..Len(matrix_python) |->
                             [os |-> matrix_os[i], python |-> matrix_python[k]]]])
        Kept(c) == c \notin matrix_exclude
    IN SelectSeq(all, Kept)

\* name: ${{ matrix.os }}-py${{ matrix.python-version }}
JobName(c) == c.os \o "-py" \o c.python

\* runs-on: ${{ matrix.os }}
RunsOn(c) == c.os

\* One job per combination, waiting for a runner.
NewJob(c) ==
    [os |-> c.os, python |-> c.python, name |-> JobName(c),
     runs_on |-> RunsOn(c),
     state |-> "queued", conclusion |-> "none",
     running |-> FALSE, results |-> <<>>, exit |-> 0, rcheck |-> "none"]

-----------------------------------------------------------------------------
(* The pytest workflow: steps *)

\* cond: "always" for a step without if:, "macos" for
\* if: startsWith(matrix.os, 'macos').  kind: "uses", "run" or "rcmdcheck".
Step(name, cond, kind) == [name |-> name, cond |-> cond, kind |-> kind]

StepsCheckout ==
    <<Step("Check out ixmp", "always", "uses"),
      Step("Check out message_ix", "always", "uses"),
      Step("Fetch tags (for setuptools-scm)", "always", "run"),
      Step("actions/setup-python@v2", "always", "uses"),
      Step("Set RETICULATE_PYTHON", "always", "run"),
      Step("r-lib/actions/setup-r@master", "always", "uses"),
      Step("Use OpenJDK 14 (macOS only)", "macos", "uses"),
      Step("Cache GAMS installer, Python packages, and R packages", "always", "uses")>>

StepsInstall ==
    <<Step("Install GAMS and Graphviz", "always", "run"),
      Step("Check GAMS", "always", "run"),
      Step("Upgrade pip, wheel, setuptools-scm", "always", "run"),
      Step("Install ixmp and dependencies", "always", "run"),
      Step("Install Python package and dependencies", "always", "run"),
      Step("Install R package, dependencies, and tutorial requirements", "always", "run")>>

StepPytest == Step("Run test suite using pytest", "always", "run")
StepRCheck == Step("Run R CMD check", "always", "rcmdcheck")
StepUpload == Step("Upload test coverage to Codecov.io", "always", "run")

\* The steps with the test suite placed before the installation steps.
StepsPytestFirst ==
    StepsCheckout \o <<StepPytest>> \o StepsInstall \o <<StepUpload, StepRCheck>>
Steps ==
    StepsCheckout \o StepsInstall \o <<StepPytest, StepRCheck, StepUpload>>

\* startsWith(matrix.os, 'macos'), for the three values of matrix.os
StartsWithMacos(os) == os = "macos-latest"

\* A step's if: condition; a step without one runs while the job succeeds.
Condition(step, job) ==
    CASE step.cond = "always" -> TRUE
      [] step.cond = "macos" -> StartsWithMacos(job.os)

\* Exit codes of a run: step.
ExitCodes == {0, 1}

\* What rcmdcheck::rcmdcheck() can report.
RCheckReports == {"ok", "note", "warning", "error"}

\* rcmdcheck(error_on = "warning"): the R script stops with an error, and
\* Rscript exits non-zero, when the check reports a warning or an error.
RCheckExit(report) ==
    IF report \in {"warning", "error"} THEN 1 ELSE 0

\* The runner's verdict on a step from its exit code.
StepOutcome(code) == IF code = 0 THEN "success" ELSE "failure"

-----------------------------------------------------------------------------
(* The pytest workflow: execution *)

JobIds == 1..Len(MatrixCombinations)

NextStep(job) == Len(job.results) + 1

Started == {k \in JobIds : jobs[k].state # "queued"}

\* A runner picks the job up.
StartJob(j) ==
    /\ jobs[j].state = "queued"
    /\ Cardinality(Started) < MaxStarted
    /\ jobs' = [jobs EXCEPT ![j].state = "in_progress"]
    /\ UNCHANGED <<pc, status, calls, error, sets, rows, model_horizon, year_df, scen, year_set>>

Ready(j) ==
    /\ jobs[j].state = "in_progress"
    /\ ~jobs[j].running
    /\ NextStep(jobs[j]) <= Len(Steps)

\* A job all of whose steps have continue-on-error: true: a failed step is
\* recorded and the job goes on.
JobAfterContinue(job, outcome, code) ==
    LET res == Append(job.results, outcome)
    IN [job EXCEPT
          !.results = res,
          !.running = FALSE,
          !.exit = code,
          !.state = IF Len(res) = Len(Steps) THEN "completed" ELSE "in_progress",
          !.conclusion = IF Len(res) = Len(Steps) THEN "success" ELSE "none"]
\* The job after one of its steps ended with the given outcome: a failure
\* ends the job, the last step's success completes it.
JobAfter(job, outcome, code) ==
    LET res == Append(job.results, outcome)
    IN [job EXCEPT
          !.results = res,
          !.running = FALSE,
          !.exit = code,
          !.state = IF outcome = "failure" \/ Len(res) = Len(Steps)
                    THEN "completed" ELSE "in_progress",
          !.conclusion = IF outcome = "failure" THEN "failure"
                         ELSE IF Len(res) = Len(Steps) THEN "success"
                         ELSE "none"]

\* The jobs after job j became `after`: with fail-fast, a failed job cancels
\* every job of the matrix that is queued or in progress.
JobsAfter(j, after) ==
    [k \in JobIds |->
       IF k = j THEN after
       ELSE IF fail_fast /\ after.conclusion = "failure"
               /\ jobs[k].state # "completed"
            THEN [jobs[k] EXCEPT !.state = "completed",
                                 !.conclusion = "cancelled",
                                 !.running = FALSE]
            ELSE jobs[k]]

\* The step's if: condition is false: the step is skipped.
SkipStep(j) ==
    /\ Ready(j)
    /\ ~Condition(Steps[NextStep(jobs[j])], jobs[j])
    /\ jobs' = JobsAfter(j, JobAfter(jobs[j], "skipped", jobs[j].exit))
    /\ UNCHANGED <<pc, status, calls, error, sets, rows, model_horizon, year_df, scen, year_set>>

\* The step's if: condition is true: the step starts.
BeginStep(j) ==
    /\ Ready(j)
    /\ Condition(Steps[NextStep(jobs[j])], jobs[j])
    /\ jobs' = [jobs EXCEPT ![j].running = TRUE]
    /\ UNCHANGED <<pc, status, calls, error, sets, rows, model_horizon, year_df, scen, year_set>>

\* A uses: or run: step ends with an exit code.
EndStep(j) ==
    /\ jobs[j].state = "in_progress"
    /\ jobs[j].running
    /\ Steps[NextStep(jobs[j])].kind # "rcmdcheck"
    /\ \E code \in ExitCodes :
          jobs' = JobsAfter(j, JobAfter(jobs[j], StepOutcome(code), code))
    /\ UNCHANGED <<pc, status, calls, error, sets, rows, model_horizon, year_df, scen, year_set>>

\* The 'Run R CMD check' step ends with what rcmdcheck reports.
EndRCheck(j) ==
    /\ jobs[j].state = "in_progress"
    /\ jobs[j].running
    /\ Steps[NextStep(jobs[j])].kind = "rcmdcheck"
    /\ \E report \in RCheckReports :
          LET code == RCheckExit(report)
          IN jobs' = JobsAfter(j, [JobAfter(jobs[j], StepOutcome(code), code)
                                     EXCEPT !.rcheck = report])
    /\ UNCHANGED <<pc, status, calls, error, sets, rows, model_horizon, year_df, scen, year_set>>

NextCI ==
    \/ \E j \in JobIds : StartJob(j)
    \/ \E j \in JobIds : SkipStep(j)
    \/ \E j \in JobIds : BeginStep(j)
    \/ \E j \in JobIds : EndStep(j)
    \/ \E j \in JobIds : EndRCheck(j)

InitCI ==
    jobs = [i \in 1..Len(MatrixCombinations) |-> NewJob(MatrixCombinations[i])]

\* A run of the notebook; the workflow's jobs stay queued.
InitRunNB == InitNB /\ InitCI

SpecNB == InitRunNB /\ [][NextNB]_vars

\* A run of the workflow; the notebook is not executed.
InitRunCI == StartNB(YearPool) /\ InitCI

SpecCI == InitRunCI /\ [][NextCI]_vars

-----------------------------------------------------------------------------
(* Properties of the notebook run (SpecNB) *)

\* The position of a call in the order  open platform -> clone -> add_set ->
\* add_par -> commit -> solve -> plot;  0 for the calls the order leaves out.
Rank(fn) ==
    CASE fn = "Platform" -> 1
      [] fn = "clone" -> 2
      [] fn = "add_set" -> 3
      [] fn = "add_par" -> 4
      [] fn = "commit" -> 5
      [] fn = "solve" -> 6
      [] fn \in PlotFns -> 7
      [] OTHER -> 0

\* C1: the platform calls of a run occur in the one order open platform ->
\* clone -> add_set -> add_par -> commit -> solve -> plot: no call of an
\* earlier phase follows a call of a later one (no add_set after an add_par,
\* no add_par after commit, no solve before commit, no plot before solve), and
\* a call of one phase is made only after a call of the phase before it has
\* returned.
C1_CallOrder ==
    /\ \A i, k \in 1..Len(calls) :
          (i < k /\ Rank(calls[i].fn) # 0 /\ Rank(calls[k].fn) # 0)
             => Rank(calls[i].fn) <= Rank(calls[k].fn)
    /\ \A k \in 1..Len(calls) :
          Rank(calls[k].fn) > 1
             => \E i \in 1..(k - 1) :
                   /\ Rank(calls[i].fn) = Rank(calls[k].fn) - 1
                   /\ calls[i].outcome = "ok"

\* A complete run: every phase was reached, the last plot was drawn.
C1_Witness ==
    /\ status = "done"
    /\ \E i \in 1..Len(calls) : calls[i].fn = "plot_extraction"
    /\ \E i \in 1..Len(calls) : calls[i].fn = "add_set"

SixColumns == {"node", "commodity", "grade", "year", "value", "unit"}

InputColumns ==
    {"node_loc", "technology", "year_vtg", "year_act", "mode", "node_origin",
     "commodity", "level", "time", "time_origin", "value", "unit"}

\* C4 as stated: every row submitted through add_par, those of 'input'
\* included, has its columns among node, commodity, grade, year, value, unit.
C4_AllRowsSixColumns ==
    \A i \in 1..Len(rows) : DOMAIN rows[i].row \subseteq SixColumns

\* C4, amended: the rows of resource_volume, resource_cost and
\* historical_extraction have their columns among node, commodity, grade,
\* year, value, unit, with a number as value; the rows of 'input' have the
\* columns of the technology's input linkage instead.
C4_RowColumns ==
    \A i \in 1..Len(rows) :
       /\ rows[i].par \in {"resource_volume", "resource_cost",
                           "historical_extraction", "input"}
       /\ rows[i].par = "resource_volume"
             => DOMAIN rows[i].row = SixColumns \ {"year"}
       /\ rows[i].par \in {"resource_cost", "historical_extraction"}
             => /\ DOMAIN rows[i].row = SixColumns
                /\ rows[i].row.year \in Nat
       /\ rows[i].par = "input" => DOMAIN rows[i].row = InputColumns
       /\ rows[i].row.value \in Nat

\* All four parameters have been submitted.
C4_Witness ==
    /\ \E i \in 1..Len(rows) : rows[i].par = "input"
    /\ \E i \in 1..Len(rows) : rows[i].par = "historical_extraction"
    /\ \E i \in 1..Len(rows) : rows[i].par = "resource_cost"
    /\ \E i \in 1..Len(rows) : rows[i].par = "resource_volume"

\* The run ended in an exception of the platform.
Raised(i) == calls[i].outcome = "raised"

\* Calls that would undo or repeat work after a failure.
Compensating ==
    {"discard_changes", "rollback", "remove_solution", "open_db", "restore"}

\* C5: a call that raises is the last call of the run: it is not repeated
\* and no later call is made; the run is then in error with the exception of
\* that call; no compensating call is ever made and the scenario is checked
\* out at most once.
C5_NoLocalHandling ==
    /\ \A i \in 1..Len(calls) :
          Raised(i) => /\ i = Len(calls)
                       /\ status = "raised"
                       /\ error = calls[i].fn
                       /\ pc = i
    /\ status = "raised" => (Len(calls) > 0 /\ Raised(Len(calls)))
    /\ status # "raised" => error = "none"
    /\ \A i \in 1..Len(calls) : calls[i].fn \notin Compensating
    /\ Cardinality({i \in 1..Len(calls) : calls[i].fn = "check_out"}) <= 1

\* commit raised after the parameters had been added.
C5_Witness ==
    /\ status = "raised"
    /\ error = "commit"
    /\ scen = "checked_out"
    /\ Len(rows) > 0

\* The rows submitted for a parameter and grade.
RowsOf(par, g) ==
    {i \in 1..Len(rows) : rows[i].par = par /\ rows[i].row.grade = g}

LoopPars == {"resource_volume", "resource_cost", "historical_extraction"}

\* The loop over the grades has run to its end.
LoopDone ==
    \E i \in 1..Len(calls) :
       /\ calls[i].fn = "add_par"
       /\ calls[i].arg = "historical_extraction"
       /\ calls[i].key = "b"
       /\ calls[i].outcome = "ok"

ExpectVolume == [a |-> 1500, b |-> 3500]
ExpectCost == [a |-> 10, b |-> 52]
ExpectHistorical == [a |-> 280, b |-> 0]

\* C8: the rows of resource_volume, resource_cost and historical_extraction
\* are for grades a and b only, with node 'Westeros' and commodity 'coal';
\* once the loop has ended there is, per grade, exactly one resource_volume
\* row (a: 1500, b: 3500), exactly one resource_cost row per year of the
\* scenario's 'year' set (a: 10, b: 52) and exactly one
\* historical_extraction row, for 690 (a: 280, b: 0).
C8_LoopRows ==
    /\ \A i \in 1..Len(rows) :
          rows[i].par \in LoopPars
             => /\ rows[i].row.grade \in {"a", "b"}
                /\ rows[i].row.node = "Westeros"
                /\ rows[i].row.commodity = "coal"
    /\ LoopDone =>
          \A g \in {"a", "b"} :
             /\ Cardinality(RowsOf("resource_volume", g)) = 1
             /\ \A i \in RowsOf("resource_volume", g) :
                   rows[i].row.value = ExpectVolume[g]
             /\ Cardinality(RowsOf("resource_cost", g)) = Cardinality(year_set)
             /\ \A y \in year_set :
                   Cardinality({i \in RowsOf("resource_cost", g) :
                                   rows[i].row.year = y}) = 1
             /\ \A i \in RowsOf("resource_cost", g) :
                   rows[i].row.value = ExpectCost[g]
             /\ Cardinality(RowsOf("historical_extraction", g)) = 1
             /\ \A i \in RowsOf("historical_extraction", g) :
                   /\ rows[i].row.year = 690
                   /\ rows[i].row.value = ExpectHistorical[g]

\* The loop has ended in a scenario with several years.
C8_Witness ==
    /\ LoopDone
    /\ Cardinality(year_set) >= 2
    /\ Cardinality(RowsOf("resource_cost", "b")) >= 2

-----------------------------------------------------------------------------
(* Properties of the workflow run (SpecCI) *)

\* The position of the step with the given name in the job's steps.
Idx(name) == CHOOSE i \in 1..Len(Steps) : Steps[i].name = name

IdxPytest == Idx("Run test suite using pytest")
IdxRCheck == Idx("Run R CMD check")
IdxUpload == Idx("Upload test coverage to Codecov.io")
IdxOpenJDK == Idx("Use OpenJDK 14 (macOS only)")

\* The job has started its k-th step.
Begun(job, k) ==
    \/ Len(job.results) >= k /\ job.results[k] # "skipped"
    \/ job.running /\ NextStep(job) = k

\* The job's k-th step has run and succeeded.
Succeeded(job, k) == Len(job.results) >= k /\ job.results[k] = "success"

IdxInstall ==
    {Idx("Install GAMS and Graphviz"), Idx("Check GAMS"),
     Idx("Install ixmp and dependencies"),
     Idx("Install Python package and dependencies"),
     Idx("Install R package, dependencies, and tutorial requirements")}

\* C2: in every job the steps are taken in the declared order, and a step
\* that has a later step after it, ended or running, has succeeded or was
\* skipped; pytest starts only after the GAMS,
\* ixmp, Python package and R package installation steps have succeeded, R
\* CMD check only after pytest, and the coverage upload only after pytest
\* and R CMD check have succeeded.
C2_StepOrder ==
    \A j \in JobIds :
       /\ \A q \in 1..Len(jobs[j].results) :
             (q < Len(jobs[j].results) \/ jobs[j].running)
                => jobs[j].results[q] \in {"success", "skipped"}
       /\ Begun(jobs[j], IdxPytest)
             => \A q \in IdxInstall : Succeeded(jobs[j], q)
       /\ Begun(jobs[j], IdxRCheck) => Succeeded(jobs[j], IdxPytest)
       /\ Begun(jobs[j], IdxUpload)
             => /\ Succeeded(jobs[j], IdxPytest)
                /\ Succeeded(jobs[j], IdxRCheck)

\* A job is uploading its coverage.
C2_Witness ==
    \E j \in JobIds :
       /\ jobs[j].running
       /\ NextStep(jobs[j]) = IdxUpload

ExpectedJobs ==
    {<<"macos-latest", "3.6", "macos-latest-py3.6">>,
     <<"macos-latest", "3.8", "macos-latest-py3.8">>,
     <<"ubuntu-latest", "3.6", "ubuntu-latest-py3.6">>,
     <<"ubuntu-latest", "3.8", "ubuntu-latest-py3.8">>,
     <<"windows-latest", "3.8", "windows-latest-py3.8">>}

\* C3: the workflow has exactly 5 jobs, one for each pair of
\* {macos-latest, ubuntu-latest, windows-latest} x {3.6, 3.8} but
\* (windows-latest, 3.6); no pair occurs twice; each job runs on the runner
\* named by its own os and is named <os>-py<python-version>.
C3_Matrix ==
    /\ Len(jobs) = 5
    /\ \A i, k \in 1..Len(jobs) :
          i # k => <<jobs[i].os, jobs[i].python>> # <<jobs[k].os, jobs[k].python>>
    /\ \A i \in 1..Len(jobs) :
          ~(jobs[i].os = "windows-latest" /\ jobs[i].python = "3.6")
    /\ {<<jobs[i].os, jobs[i].python, jobs[i].name>> : i \in 1..Len(jobs)}
          = ExpectedJobs
    /\ \A i \in 1..Len(jobs) : jobs[i].runs_on = jobs[i].os

\* The jobs of the Windows and of a macOS runner have been started.
C3_Witness ==
    /\ \E i \in 1..Len(jobs) :
          /\ jobs[i].state # "queued"
          /\ jobs[i].runs_on = "windows-latest"
          /\ jobs[i].name = "windows-latest-py3.8"
    /\ \E i \in 1..Len(jobs) :
          /\ jobs[i].state # "queued"
          /\ jobs[i].name = "macos-latest-py3.6"

\* A failed step ends its job as failed and is the job's last step.
FailureEndsJob(job) ==
    /\ \A k \in 1..Len(job.results) :
          job.results[k] = "failure"
             => /\ k = Len(job.results)
                /\ job.state = "completed"
                /\ job.conclusion = "failure"
                /\ ~job.running
    /\ job.conclusion = "failure"
          => /\ Len(job.results) > 0
             /\ job.results[Len(job.results)] = "failure"
             /\ job.exit # 0
    /\ \A q \in {IdxPytest, IdxRCheck} :
          (Len(job.results) >= q /\ job.results[q] = "failure")
             => ~Begun(job, IdxUpload)

\* R CMD check is a failed step, the last of its job, when it reports a
\* warning or an error.
RCheckFailsOnWarning(job) ==
    job.rcheck \in {"warning", "error"}
       => /\ Len(job.results) = IdxRCheck
          /\ job.results[IdxRCheck] = "failure"
          /\ job.conclusion = "failure"

\* C6 as stated: a step that exits non-zero ends its job as failed and no
\* later step runs; a job succeeds only if every one of its steps exited
\* zero; R CMD check fails on a warning or an error.
C6_EveryStepExitedZero ==
    \A j \in JobIds :
       /\ FailureEndsJob(jobs[j])
       /\ RCheckFailsOnWarning(jobs[j])
       /\ jobs[j].conclusion = "success"
             => /\ Len(jobs[j].results) = Len(Steps)
                /\ \A k \in 1..Len(Steps) : jobs[j].results[k] = "success"

\* C6, amended: a step that exits non-zero ends its job as failed and no
\* later step runs; a job succeeds only if every one of its steps that ran
\* exited zero, the one step that does not run being 'Use OpenJDK 14 (macOS
\* only)' on a runner other than macOS; R CMD check fails on a warning or
\* an error.
C6_FailureSignalling ==
    \A j \in JobIds :
       /\ FailureEndsJob(jobs[j])
       /\ RCheckFailsOnWarning(jobs[j])
       /\ jobs[j].conclusion = "success"
             => /\ Len(jobs[j].results) = Len(Steps)
                /\ jobs[j].exit = 0
                /\ \A k \in 1..Len(Steps) :
                      \/ jobs[j].results[k] = "success"
                      \/ /\ jobs[j].results[k] = "skipped"
                         /\ k = IdxOpenJDK
                         /\ jobs[j].os # "macos-latest"

\* One job failed in R CMD check on a warning, another one succeeded.
C6_Witness ==
    /\ \E j \in JobIds :
          /\ jobs[j].conclusion = "failure"
          /\ jobs[j].rcheck = "warning"
    /\ \E j \in JobIds :
          /\ jobs[j].conclusion = "success"
          /\ jobs[j].os = "macos-latest"

\* C9: no job is ever cancelled; a job that is in progress can always take
\* its next step, whatever the other jobs did; a completed job failed in its
\* own last step or succeeded in all of its own steps.
C9_JobsIndependent ==
    \A j \in JobIds :
       /\ jobs[j].conclusion # "cancelled"
       /\ jobs[j].state = "in_progress"
             => ENABLED (SkipStep(j) \/ BeginStep(j) \/ EndStep(j) \/ EndRCheck(j))
       /\ jobs[j].state = "completed"
             => \/ /\ jobs[j].conclusion = "failure"
                   /\ jobs[j].results[Len(jobs[j].results)] = "failure"
                \/ /\ jobs[j].conclusion = "success"
                   /\ Len(jobs[j].results) = Len(Steps)
                   /\ \A k \in 1..Len(Steps) : jobs[j].results[k] # "failure"

\* One job failed early and another one went on to succeed.
C9_Witness ==
    \E j, k \in JobIds :
       /\ j # k
       /\ jobs[j].conclusion = "failure"
       /\ Len(jobs[j].results) < IdxPytest
       /\ jobs[k].conclusion = "success"

====
